---- MODULE Spec2Model ----
(***************************************************************************)
(* Model of sync.py, the GitHub release sync script for NomadNet.          *)
(*                                                                         *)
(* File names, the application name and the glob pattern are sequences of  *)
(* one-character strings, so that fnmatch, str.endswith, str.lower and     *)
(* Path.suffix are computed character by character as in the source.      *)
(* gh is the external collaborator: every call to it has an outcome drawn  *)
(* from Outcomes, and the release list it reports is the variable upstream.*)
(* gh reports distinct tags and flags at most one release isLatest.        *)
(***************************************************************************)
EXTENDS Integers, Sequences, FiniteSets, TLC

\* ------------------------------------------------------------------ bounds
\* config["max_releases"] of the modelled configuration
max_releases == 1
\* number of sync runs that are followed
MaxRuns == 2
\* longest asset list drawn for find_matching_asset on its own
MaxAssets == 3

\* ------------------------------------------------------------- constants
\* Python's None where a tag is expected, and where an asset is expected
None == "None"
NoAsset == <<"None">>
\* find_matching_asset has not been called
Unset == <<"unset">>

\* config["app_name"]
app_name == <<"A", "p", "p">>
\* config["asset_pattern"]
asset_pattern == <<"a", "p", "p", "*">>

app_1_apk == <<"a", "p", "p", "-", "1", ".", "a", "p", "k">>
app_1_apk_sha256 == <<"a", "p", "p", "-", "1", ".", "a", "p", "k", ".", "s", "h", "a", "2", "5", "6">>
app_latest_apk == <<"a", "p", "p", "-", "l", "a", "t", "e", "s", "t", ".", "a", "p", "k">>
app_3_apk_md5 == <<"a", "p", "p", "-", "3", ".", "a", "p", "k", ".", "m", "d", "5">>
notes_txt == <<"n", "o", "t", "e", "s", ".", "t", "x", "t">>

Tags == {"v1", "v2", "v3"}

\* the asset list "gh release view <tag> --json assets" reports
AssetsOf(tag) ==
    CASE tag = "v1" -> <<app_1_apk_sha256, app_1_apk>>
      [] tag = "v2" -> <<app_latest_apk>>
      [] OTHER      -> <<notes_txt, app_3_apk_md5>>

\* outcomes of one subprocess.run of gh
DlOutcomes == {"ok", "error", "timeout"}

\* ------------------------------------------------------- string functions
\* str.endswith
EndsWith(s, suf) ==
    /\ Len(suf) <= Len(s)
    /\ SubSeq(s, Len(s) - Len(suf) + 1, Len(s)) = suf

\* fnmatch.fnmatch on a POSIX system, for patterns built from literals, * and ?
RECURSIVE FnMatch(_, _)
FnMatch(name, pat) ==
    IF pat = <<>> THEN name = <<>>
    ELSE IF Head(pat) = "*"
         THEN \/ FnMatch(name, Tail(pat))
              \/ (name # <<>> /\ FnMatch(Tail(name), pat))
         ELSE /\ name # <<>>
              /\ (Head(pat) = "?" \/ Head(pat) = Head(name))
              /\ FnMatch(Tail(name), Tail(pat))

\* str.lower on the letters the application name uses
LowerChar(c) ==
    CASE c = "A" -> "a"
      [] c = "P" -> "p"
      [] OTHER   -> c

Lower(s) == [i \in 1..Len(s) |-> LowerChar(s[i])]

\* index of the last "." of s, 0 when there is none (str.rfind + 1)
RECURSIVE RFindDot(_, _)
RFindDot(s, i) ==
    IF i = 0 THEN 0
    ELSE IF s[i] = "." THEN i ELSE RFindDot(s, i - 1)

\* pathlib: Path(filename).suffix
Suffix(filename) ==
    LET i == RFindDot(filename, Len(filename))
    IN  IF 1 < i /\ i < Len(filename)
        THEN SubSeq(filename, i, Len(filename))
        ELSE <<>>

\* the name checksum files are recognised by
IsChecksumName(name) ==
    \/ EndsWith(name, <<".", "s", "h", "a", "2", "5", "6">>)
    \/ EndsWith(name, <<".", "m", "d", "5">>)

\* -------------------------------------------------------- asset matching
\* a plausible slip: the checksum files are not skipped
RECURSIVE find_matching_asset_noskip(_, _)
find_matching_asset_noskip(assets, pattern) ==
    IF assets = <<>> THEN NoAsset
    ELSE IF FnMatch(Head(assets), pattern) THEN Head(assets)
    ELSE find_matching_asset_noskip(Tail(assets), pattern)

RECURSIVE find_matching_asset(_, _)
find_matching_asset(assets, pattern) ==
    IF assets = <<>> THEN NoAsset
    ELSE IF IsChecksumName(Head(assets))
         THEN find_matching_asset(Tail(assets), pattern)
    ELSE IF FnMatch(Head(assets), pattern) THEN Head(assets)
    ELSE find_matching_asset(Tail(assets), pattern)


\* ------------------------------------------------------- the release list
Release(tag, pre, latest) ==
    [tagName |-> tag, isPrerelease |-> pre, isLatest |-> latest]

\* the empty list and the lists that put one more release in front of a
\* list gh can report; a release published as latest takes the flag over
RECURSIVE ClearLatest(_)
ClearLatest(list) ==
    IF list = <<>> THEN <<>>
    ELSE <<Release(Head(list).tagName, Head(list).isPrerelease, FALSE)>>
         \o ClearLatest(Tail(list))

TagsIn(list) == {list[i].tagName : i \in 1..Len(list)}

\* "--limit", str(limit * 2)
Limit == max_releases * 2

\* run_gh_command: the parsed JSON, or None (none |-> TRUE) when gh exits
\* non-zero, times out or prints no JSON
GhOutcomes == {"ok", "error", "timeout", "badjson"}

run_gh_command(outcome, json) ==
    IF outcome = "ok" THEN [none |-> FALSE, json |-> json]
    ELSE [none |-> TRUE, json |-> <<>>]

\* "return releases or []"
get_releases(outcome, listed) ==
    LET r == run_gh_command(outcome, listed)
    IN  IF r.none \/ r.json = <<>> THEN <<>> ELSE r.json

get_release_details(outcome, tag) ==
    run_gh_command(outcome, AssetsOf(tag))

\* line 208: "if not releases: sys.exit(1)"
\* a plausible slip: the run goes on without a release list
AbortsOnList_never(list) == FALSE

AbortsOnList(list) == list = <<>>

\* ------------------------------------------------------ release selection
\* lines 216-220: the loop over the fetched list, st and pr being
\* latest_stable_tag and latest_prerelease_tag so far
\* a plausible slip: isLatest is not looked at
RECURSIVE SelectLoop_nolatest(_, _, _)
SelectLoop_nolatest(list, st, pr) ==
    IF list = <<>> THEN <<st, pr>>
    ELSE IF Head(list).isPrerelease /\ pr = None
         THEN SelectLoop_nolatest(Tail(list), st, Head(list).tagName)
    ELSE SelectLoop_nolatest(Tail(list), st, pr)

\* a plausible slip: every prerelease overwrites the candidate
RECURSIVE SelectLoop_lastpre(_, _, _)
SelectLoop_lastpre(list, st, pr) ==
    IF list = <<>> THEN <<st, pr>>
    ELSE IF Head(list).isLatest
         THEN SelectLoop_lastpre(Tail(list), Head(list).tagName, pr)
    ELSE IF Head(list).isPrerelease
         THEN SelectLoop_lastpre(Tail(list), st, Head(list).tagName)
    ELSE SelectLoop_lastpre(Tail(list), st, pr)

RECURSIVE SelectLoop(_, _, _)
SelectLoop(list, st, pr) ==
    IF list = <<>> THEN <<st, pr>>
    ELSE IF Head(list).isLatest
         THEN SelectLoop(Tail(list), Head(list).tagName, pr)
    ELSE IF Head(list).isPrerelease /\ pr = None
         THEN SelectLoop(Tail(list), st, Head(list).tagName)
    ELSE SelectLoop(Tail(list), st, pr)

\* lines 222-226: the fallback when no release is flagged isLatest
RECURSIVE FirstStable(_)
FirstStable(list) ==
    IF list = <<>> THEN None
    ELSE IF ~Head(list).isPrerelease THEN Head(list).tagName
    ELSE FirstStable(Tail(list))

SelectTags(list) ==
    LET sel == SelectLoop(list, None, None)
    IN  [stable     |-> IF sel[1] = None THEN FirstStable(list) ELSE sel[1],
         prerelease |-> sel[2]]

\* ------------------------------------------------------ the files directory
AssetNames == UNION {{AssetsOf(t)[i] : i \in 1..Len(AssetsOf(t))} : t \in Tags}

Absent == [kind |-> "absent", target |-> <<>>]
RegularFile == [kind |-> "file", target |-> <<>>]
LinkTo(name) == [kind |-> "link", target |-> name]

\* f"{app_name.lower()}-latest{Path(stable_filename).suffix}"
SymlinkName(app, stable_filename) ==
    Lower(app) \o <<"-", "l", "a", "t", "e", "s", "t">> \o Suffix(stable_filename)

Paths == AssetNames \cup {SymlinkName(app_name, n) : n \in AssetNames}

IsSymlink(fsys, path) == fsys[path].kind = "link"

\* Path.exists follows a symlink
Exists(fsys, path) ==
    \/ fsys[path].kind = "file"
    \/ (fsys[path].kind = "link" /\ fsys[fsys[path].target].kind = "file")

\* download_asset: what it returns, the files directory it leaves and the
\* number of "gh release download" subprocesses it ran
\* a plausible slip: the downloader runs whether or not the file is there
download_asset_always(fsys, filename, outcome) ==
    IF outcome = "ok"
    THEN [ret |-> TRUE, fs |-> [fsys EXCEPT ![filename] = RegularFile], spawned |-> 1]
    ELSE [ret |-> FALSE, fs |-> fsys, spawned |-> 1]

\* a plausible slip: a failed download is tried once more
download_asset_retry(fsys, filename, outcome) ==
    IF Exists(fsys, filename)
    THEN [ret |-> TRUE, fs |-> fsys, spawned |-> 0]
    ELSE IF outcome = "ok"
    THEN [ret |-> TRUE, fs |-> [fsys EXCEPT ![filename] = RegularFile], spawned |-> 1]
    ELSE [ret |-> FALSE, fs |-> fsys, spawned |-> 2]

download_asset(fsys, filename, outcome) ==
    IF Exists(fsys, filename)
    THEN [ret |-> TRUE, fs |-> fsys, spawned |-> 0]
    ELSE IF outcome = "ok"
    THEN [ret |-> TRUE, fs |-> [fsys EXCEPT ![filename] = RegularFile], spawned |-> 1]
    ELSE [ret |-> FALSE, fs |-> fsys, spawned |-> 1]

update_latest_symlink(fsys, app, stable_filename) ==
    LET symlink_name == SymlinkName(app, stable_filename)
        unlinked == IF IsSymlink(fsys, symlink_name) \/ Exists(fsys, symlink_name)
                    THEN [fsys EXCEPT ![symlink_name] = Absent]
                    ELSE fsys
    IN  IF Exists(unlinked, stable_filename)
        THEN [unlinked EXCEPT ![symlink_name] = LinkTo(stable_filename)]
        ELSE unlinked


\* what one of the three blocks of main does with a release: fetch its
\* details, match an asset, download it.  details: the fetch returned JSON;
\* asset: the matched asset or NoAsset; ret: download_asset's result
ProcessRelease(fsys, tag, od, dl) ==
    LET details == get_release_details(od, tag)
        asset == IF details.none THEN NoAsset
                 ELSE find_matching_asset(details.json, asset_pattern)
        d == IF asset = NoAsset
             THEN [ret |-> FALSE, fs |-> fsys, spawned |-> 0]
             ELSE download_asset(fsys, asset, dl)
    IN  [details |-> ~details.none, asset |-> asset, called |-> asset # NoAsset,
         existed |-> asset # NoAsset /\ Exists(fsys, asset),
         ret |-> d.ret, fs |-> d.fs, spawned |-> d.spawned]

\* a release record of releases.json, and the JSON null
Record(tag, asset) == [tag |-> tag, asset_filename |-> asset]
Null == Record(None, NoAsset)

EmptyData == [latest_stable |-> Null, latest_prerelease |-> Null, all_releases |-> <<>>]

\* ------------------------------------------------------------------ state
VARIABLES
    upstream,              \* the release list gh reports, newest first
    fs,                    \* FILES_DIR: path -> absent, regular file or symlink
    releases_json,         \* DATA_DIR/releases.json (written |-> FALSE: no file)
    pc,                    \* where main is: idle, list, stable, prerelease, loop, write
    releases,              \* main's releases
    latest_stable_tag,
    latest_prerelease_tag,
    data,                  \* main's data
    idx,                   \* index of the all-releases loop
    exit_code,             \* exit status of the last run, -1 before the first
    runs,                  \* runs started
    run,                   \* what the current or last run did (see NewRun)
    last,                  \* the last completed run: its release list, the files
                           \* directory it left, whether a gh call of it failed
    m_assets, m_pattern, m_result   \* find_matching_asset on its own

vars == <<upstream, fs, releases_json, pc, releases, latest_stable_tag,
          latest_prerelease_tag, data, idx, exit_code, runs, run, last,
          m_assets, m_pattern, m_result>>

matchVars == <<m_assets, m_pattern, m_result>>
mainVars == <<upstream, fs, releases_json, pc, releases, latest_stable_tag,
              latest_prerelease_tag, data, idx, exit_code, runs, run, last>>

\* the record of a run.  config: how load_config went; list: the outcome of
\* the list call; listed: the number of releases it printed; detailsFailed,
\* noMatch, dlFailed: the releases a detail fetch, the asset match or a
\* download failed for; attempts: download subprocesses per release; stored: a
\* download subprocess ran for a file that was stored when the run began;
\* dl: the last download_asset call, the block that made it and what it did;
\* wrote: releases.json was written; preProcessed: the release the
\* prerelease block processed; start_fs: the files directory the run found
NoCall == [called |-> FALSE, block |-> "none", tag |-> None, asset |-> NoAsset,
           existed |-> FALSE, spawned |-> 0, ret |-> FALSE, untouched |-> TRUE]

NewRun(fsys) ==
          [config |-> "none", list |-> "none", listed |-> 0,
           detailsFailed |-> {}, noMatch |-> {}, dlFailed |-> {},
           attempts |-> [t \in Tags |-> 0], stored |-> FALSE,
           dl |-> NoCall, wrote |-> FALSE, preProcessed |-> None, start_fs |-> fsys]


\* the run record after a block of main handled the release tag with result r
Noted(rn, fsys, tag, r, block) ==
    [rn EXCEPT
        !.detailsFailed = IF r.details THEN @ ELSE @ \cup {tag},
        !.noMatch = IF r.details /\ r.asset = NoAsset THEN @ \cup {tag} ELSE @,
        !.dlFailed = IF r.called /\ ~r.ret THEN @ \cup {tag} ELSE @,
        !.attempts[tag] = @ + r.spawned,
        !.stored = @ \/ (r.spawned > 0 /\ Exists(rn.start_fs, r.asset)),
        !.dl = [called |-> r.called, block |-> block, tag |-> tag, asset |-> r.asset,
                existed |-> r.existed, spawned |-> r.spawned, ret |-> r.ret,
                untouched |-> r.fs = fsys]]

EmptyFs == [p \in Paths |-> Absent]

Min(a, b) == IF a < b THEN a ELSE b

\* "for release in releases[:max_releases]"
LoopBound == Min(Len(releases), max_releases)

MainInit ==
    /\ upstream = <<>>
    /\ fs = EmptyFs
    /\ releases_json = [written |-> FALSE, data |-> EmptyData]
    /\ pc = "idle"
    /\ releases = <<>>
    /\ latest_stable_tag = None
    /\ latest_prerelease_tag = None
    /\ data = EmptyData
    /\ idx = 1
    /\ exit_code = -1
    /\ runs = 0
    /\ run = NewRun(EmptyFs)
    /\ last = [valid |-> FALSE, releases |-> <<>>, fs |-> EmptyFs, clean |-> FALSE]

MatchIdle ==
    /\ m_assets = <<>>
    /\ m_pattern = asset_pattern
    /\ m_result = Unset

Init == MainInit /\ MatchIdle

\* the process ends: its locals are gone
Exit(code) ==
    /\ exit_code' = code
    /\ pc' = "idle"
    /\ releases' = <<>>
    /\ latest_stable_tag' = None
    /\ latest_prerelease_tag' = None
    /\ data' = EmptyData
    /\ idx' = 1

\* -------------------------------------------------------------- upstream
\* a release is published in the repository; gh lists the newest first
Publish ==
    /\ pc = "idle"
    /\ \E tag \in Tags \ TagsIn(upstream), pre \in BOOLEAN, latest \in BOOLEAN :
          upstream' = <<Release(tag, pre, latest)>>
                      \o (IF latest THEN ClearLatest(upstream) ELSE upstream)
    /\ UNCHANGED <<fs, releases_json, pc, releases, latest_stable_tag,
                   latest_prerelease_tag, data, idx, exit_code, runs, run, last>>
    /\ UNCHANGED matchVars

\* ------------------------------------------------------------------ main
\* load_config, CONFIG_FILE missing: sys.exit(1)
LoadConfigMissing ==
    /\ pc = "idle"
    /\ runs < MaxRuns
    /\ runs' = runs + 1
    /\ run' = [NewRun(fs) EXCEPT !.config = "missing"]
    /\ Exit(1)
    /\ UNCHANGED <<upstream, fs, releases_json, last>>
    /\ UNCHANGED matchVars

\* load_config returns the configuration; lines 191-204
LoadConfigOk ==
    /\ pc = "idle"
    /\ runs < MaxRuns
    /\ runs' = runs + 1
    /\ run' = [NewRun(fs) EXCEPT !.config = "loaded"]
    /\ pc' = "list"
    /\ UNCHANGED <<upstream, fs, releases_json, releases, latest_stable_tag,
                   latest_prerelease_tag, data, idx, exit_code, last>>
    /\ UNCHANGED matchVars

\* what "gh release list --limit" prints when it succeeds
Listed == SubSeq(upstream, 1, Min(Limit, Len(upstream)))

\* lines 206-210: no release list, sys.exit(1)
GetReleasesAbort ==
    /\ pc = "list"
    /\ \E o \in GhOutcomes :
          /\ AbortsOnList(get_releases(o, Listed))
          /\ run' = [run EXCEPT !.list = o, !.listed = IF o = "ok" THEN Len(Listed) ELSE 0]
    /\ Exit(1)
    /\ UNCHANGED <<upstream, fs, releases_json, runs, last>>
    /\ UNCHANGED matchVars

\* lines 206-244: the list is there; the two tags are selected
GetReleasesOk ==
    /\ pc = "list"
    /\ \E o \in GhOutcomes :
          LET r == get_releases(o, Listed)
              sel == SelectTags(r)
          IN  /\ ~AbortsOnList(r)
              /\ run' = [run EXCEPT !.list = o, !.listed = IF o = "ok" THEN Len(Listed) ELSE 0]
              /\ releases' = r
              /\ latest_stable_tag' = sel.stable
              /\ latest_prerelease_tag' = sel.prerelease
    /\ data' = EmptyData
    /\ pc' = "stable"
    /\ UNCHANGED <<upstream, fs, releases_json, idx, exit_code, runs, last>>
    /\ UNCHANGED matchVars

\* lines 246-261
ProcessStable ==
    /\ pc = "stable"
    /\ IF latest_stable_tag = None
       THEN UNCHANGED <<fs, data, run>>
       ELSE \E od \in GhOutcomes, dl \in DlOutcomes :
              LET r == ProcessRelease(fs, latest_stable_tag, od, dl)
              IN  /\ run' = Noted(run, fs, latest_stable_tag, r, "stable")
                  /\ IF r.ret
                     THEN /\ data' = [data EXCEPT !.latest_stable =
                                        Record(latest_stable_tag, r.asset)]
                          /\ fs' = update_latest_symlink(r.fs, app_name, r.asset)
                     ELSE /\ data' = data
                          /\ fs' = r.fs
    /\ pc' = "prerelease"
    /\ UNCHANGED <<upstream, releases_json, releases, latest_stable_tag,
                   latest_prerelease_tag, idx, exit_code, runs, last>>
    /\ UNCHANGED matchVars

\* lines 263-277
ProcessPrerelease ==
    /\ pc = "prerelease"
    /\ IF latest_prerelease_tag # None /\ latest_prerelease_tag # latest_stable_tag
       THEN \E od \in GhOutcomes, dl \in DlOutcomes :
              LET r == ProcessRelease(fs, latest_prerelease_tag, od, dl)
                  rn == Noted(run, fs, latest_prerelease_tag, r, "prerelease")
              IN  /\ run' = [rn EXCEPT !.preProcessed = latest_prerelease_tag]
                  /\ fs' = r.fs
                  /\ data' = IF r.ret
                             THEN [data EXCEPT !.latest_prerelease =
                                     Record(latest_prerelease_tag, r.asset)]
                             ELSE data
       ELSE UNCHANGED <<fs, data, run>>
    /\ pc' = IF 1 > LoopBound THEN "write" ELSE "loop"
    /\ idx' = 1
    /\ UNCHANGED <<upstream, releases_json, releases, latest_stable_tag,
                   latest_prerelease_tag, exit_code, runs, last>>
    /\ UNCHANGED matchVars

\* lines 279-298: one pass of the all-releases loop
LoopStep ==
    /\ pc = "loop"
    /\ idx <= LoopBound
    /\ \E od \in GhOutcomes, dl \in DlOutcomes :
          LET tag == releases[idx].tagName
              r == ProcessRelease(fs, tag, od, dl)
          IN  /\ run' = Noted(run, fs, tag, r, "loop")
              /\ fs' = r.fs
              /\ data' = IF r.asset # NoAsset
                         THEN [data EXCEPT !.all_releases =
                                 Append(@, Record(tag, r.asset))]
                         ELSE data
    /\ idx' = idx + 1
    /\ pc' = IF idx + 1 > LoopBound THEN "write" ELSE "loop"
    /\ UNCHANGED <<upstream, releases_json, releases, latest_stable_tag,
                   latest_prerelease_tag, exit_code, runs, last>>
    /\ UNCHANGED matchVars

\* no gh call of the run failed
Clean(rn) == rn.list = "ok" /\ rn.detailsFailed = {} /\ rn.dlFailed = {}

\* lines 300-306: releases.json is replaced and the process ends with 0
WriteJson ==
    /\ pc = "write"
    /\ releases_json' = [written |-> TRUE, data |-> data]
    /\ run' = [run EXCEPT !.wrote = TRUE]
    /\ last' = [valid |-> TRUE, releases |-> releases, fs |-> fs, clean |-> Clean(run)]
    /\ Exit(0)
    /\ UNCHANGED <<upstream, fs, runs>>
    /\ UNCHANGED matchVars

Next ==
    \/ Publish
    \/ LoadConfigMissing
    \/ LoadConfigOk
    \/ GetReleasesAbort
    \/ GetReleasesOk
    \/ ProcessStable
    \/ ProcessPrerelease
    \/ LoopStep
    \/ WriteJson

Spec == Init /\ [][Next]_vars


\* ------------------------------------------ find_matching_asset on its own
MatchNames == AssetNames

Patterns == {asset_pattern,
             <<"*">>,
             <<"*", ".", "a", "p", "k">>,
             <<"*", ".", "m", "d", "5">>,
             <<"?", "p", "p", "-", "1", ".", "a", "p", "k", "*">>}

RECURSIVE SeqsUpTo(_, _)
SeqsUpTo(S, n) ==
    IF n = 0 THEN {<<>>}
    ELSE LET shorter == SeqsUpTo(S, n - 1)
         IN  shorter \cup {Append(q, x) : q \in shorter, x \in S}

MatchInit ==
    /\ MainInit
    /\ m_assets \in SeqsUpTo(MatchNames, MaxAssets)
    /\ m_pattern \in Patterns
    /\ m_result = Unset

FindMatchingAsset ==
    /\ m_result = Unset
    /\ m_result' = find_matching_asset(m_assets, m_pattern)
    /\ UNCHANGED <<m_assets, m_pattern>>
    /\ UNCHANGED mainVars

NextMatch == FindMatchingAsset

SpecMatch == MatchInit /\ [][NextMatch]_vars


\* ================================================================ claims
Selected == pc \in {"stable", "prerelease", "loop", "write"}

\* the least element of a non-empty set of indexes
Least(S) == CHOOSE i \in S : \A j \in S : i <= j

Flagged == {i \in 1..Len(releases) : releases[i].isLatest}
NonPre == {i \in 1..Len(releases) : ~releases[i].isPrerelease}

\* C1: once main has selected its tags, the stable tag is the tag of the
\* release flagged isLatest, wherever it stands in the list; with no release
\* flagged it is the tag of the first release that is not a prerelease, and
\* None when every release is a prerelease.
C1_StableSelection ==
    Selected =>
        IF Flagged # {}
        THEN \A i \in Flagged : latest_stable_tag = releases[i].tagName
        ELSE IF NonPre # {}
             THEN latest_stable_tag = releases[Least(NonPre)].tagName
             ELSE latest_stable_tag = None

\* a release that is not flagged comes first, the flagged one second
C1_Witness ==
    /\ pc = "prerelease"
    /\ Len(releases) = 2
    /\ ~releases[1].isPrerelease /\ ~releases[1].isLatest
    /\ releases[2].isLatest
    /\ latest_stable_tag = releases[2].tagName

\* the prereleases of the list other than the selected stable release
PreCandidates ==
    {i \in 1..Len(releases) :
        releases[i].isPrerelease /\ releases[i].tagName # latest_stable_tag}

\* C6: the prerelease tag main selects is the tag of the first prerelease of
\* the list that is not the stable release (None when there is none), and
\* that release, no later one, is what the prerelease block processes and
\* records as latest_prerelease.
C6_PrereleaseSelection ==
    Selected =>
        IF PreCandidates = {}
        THEN /\ latest_prerelease_tag = None
             /\ run.preProcessed = None
             /\ data.latest_prerelease = Null
        ELSE LET first == releases[Least(PreCandidates)].tagName
             IN  /\ latest_prerelease_tag = first
                 /\ pc \in {"loop", "write"} => run.preProcessed = first
                 /\ data.latest_prerelease.tag \in {None, first}

\* two prereleases behind a stable release would need three listed
\* releases; here two prereleases are listed and the first is recorded
C6_Witness ==
    /\ pc \in {"loop", "write"}
    /\ Len(releases) = 2
    /\ releases[1].isPrerelease /\ releases[2].isPrerelease
    /\ latest_stable_tag = None
    /\ data.latest_prerelease.tag = releases[1].tagName

\* the data a reader of releases.json sees for the run in progress or over
Output == IF pc = "idle" THEN releases_json.data ELSE data

HasRecord(d, tag) ==
    \/ d.latest_stable.tag = tag
    \/ d.latest_prerelease.tag = tag
    \/ \E i \in 1..Len(d.all_releases) : d.all_releases[i].tag = tag

\* C7: when download_asset is called for a file that exists in the files
\* directory it runs no subprocess, leaves the directory as it is, returns
\* True, and the calling block records the release.
C7_SkipIfPresent ==
    (run.dl.called /\ run.dl.existed) =>
        /\ run.dl.spawned = 0
        /\ run.dl.untouched
        /\ run.dl.ret
        /\ run.dl.block = "stable" =>
              Output.latest_stable = Record(run.dl.tag, run.dl.asset)
        /\ run.dl.block = "prerelease" =>
              Output.latest_prerelease = Record(run.dl.tag, run.dl.asset)
        /\ run.dl.block = "loop" =>
              \E i \in 1..Len(Output.all_releases) :
                  Output.all_releases[i] = Record(run.dl.tag, run.dl.asset)

\* a later run finds the stable asset stored by an earlier one
C7_Witness ==
    /\ runs = 2
    /\ pc = "prerelease"
    /\ run.dl.called /\ run.dl.existed /\ run.dl.block = "stable"
    /\ run.attempts[run.dl.tag] = 0
    /\ data.latest_stable.asset_filename = run.dl.asset

RunOver == pc = "idle" /\ runs > 0

\* C4 as stated: a run exits non-zero exactly when the configuration file
\* is missing or the list call fails, and a run that exits zero has written
\* releases.json.
C4_ExitStatus_Original ==
    RunOver =>
        /\ exit_code = 1 <=>
              (run.config = "missing" \/ run.list \in {"error", "timeout", "badjson"})
        /\ exit_code = 0 => run.wrote

\* C4 amended: a run also exits non-zero when the list call succeeds and
\* lists no release; every other run exits zero and writes releases.json.
C4_ExitStatus ==
    RunOver =>
        /\ exit_code = 1 <=>
              \/ run.config = "missing"
              \/ run.list \in {"error", "timeout", "badjson"}
              \/ (run.list = "ok" /\ run.listed = 0)
        /\ exit_code = 0 <=> run.wrote
        /\ run.wrote => releases_json.written

\* a run in which a detail fetch and a download failed and nothing was
\* recorded ends with 0
C4_Witness ==
    /\ RunOver
    /\ exit_code = 0
    /\ run.wrote
    /\ run.detailsFailed # {}
    /\ run.dlFailed # {}
    /\ releases_json.data = EmptyData

SameAsLast == last.valid /\ last.releases = releases

\* C5: when no gh call fails in a completed run nor in the run that follows
\* it over the same release list, the second run starts no download for an
\* asset that was stored when it began, and leaves the files directory and
\* the content of releases.json as the first run left them.
C5_Idempotent ==
    (pc = "write" /\ SameAsLast /\ last.clean /\ Clean(run)) =>
        /\ ~run.stored
        /\ fs = last.fs
        /\ data = releases_json.data

\* C10 as stated: a run starts at most one download subprocess for a
\* release's asset.
C10_NoRetry_Original == \A t \in Tags : run.attempts[t] <= 1

\* C10 amended: a call of download_asset starts at most one subprocess, and a
\* run starts at most two for a release: one in the stable or prerelease
\* block and one in the all-releases loop.
C10_NoRetry ==
    /\ run.dl.spawned <= 1
    /\ \A t \in Tags : run.attempts[t] <= 2

\* the download failed in the stable block and was tried again by the loop
C10_Witness ==
    /\ run.dl.block = "loop"
    /\ run.dl.tag = latest_stable_tag
    /\ run.dl.tag \in run.dlFailed
    /\ run.attempts[run.dl.tag] = 2

\* C2: after a completed run no release for which a detail fetch failed, no
\* asset matched or a download failed has a record in releases.json.
C2_FailuresOmitted ==
    (RunOver /\ exit_code = 0) =>
        \A t \in run.detailsFailed \cup run.noMatch \cup run.dlFailed :
            ~HasRecord(releases_json.data, t)

LinkPaths == {SymlinkName(app_name, n) : n \in AssetNames}

\* C3: after a completed run a latest symlink that exists points at the
\* asset of the stable release that run recorded; there is none when the run
\* recorded no stable release, and none that points at the asset of a stable
\* release of an earlier run.
C3_LatestSymlink ==
    (RunOver /\ exit_code = 0) =>
        LET stable == releases_json.data.latest_stable
        IN  \A p \in LinkPaths :
                IsSymlink(fs, p) =>
                    /\ stable # Null
                    /\ fs[p].target = stable.asset_filename

\* C8: whenever releases.json names a latest stable release, the latest
\* symlink exists and its target is the asset_filename recorded there.
C8_SymlinkAfterStable ==
    (RunOver /\ releases_json.written /\ releases_json.data.latest_stable # Null) =>
        LET name == releases_json.data.latest_stable.asset_filename
        IN  /\ IsSymlink(fs, SymlinkName(app_name, name))
            /\ fs[SymlinkName(app_name, name)].target = name

\* C9: find_matching_asset returns the first asset of the list whose name
\* matches the pattern and ends in neither .sha256 nor .md5, and no asset
\* when the list has none.
Eligible ==
    {i \in 1..Len(m_assets) :
        /\ FnMatch(m_assets[i], m_pattern)
        /\ ~EndsWith(m_assets[i], <<".", "s", "h", "a", "2", "5", "6">>)
        /\ ~EndsWith(m_assets[i], <<".", "m", "d", "5">>)}

C9_FirstMatch ==
    m_result # Unset =>
        IF Eligible = {} THEN m_result = NoAsset
        ELSE m_result = m_assets[Least(Eligible)]

\* a checksum file that matches the pattern stands first and is passed over
C9_Witness ==
    /\ m_result # Unset
    /\ Len(m_assets) >= 2
    /\ FnMatch(m_assets[1], m_pattern)
    /\ EndsWith(m_assets[1], <<".", "m", "d", "5">>)
    /\ m_result = m_assets[2]

====
